---- MODULE Spec2Model ----
(***************************************************************************)
(* SerialGenius: order creation and serial-number allocation.              *)
(*                                                                         *)
(* The model follows server/routes.ts (the POST /api/orders handler and    *)
(* the catalog/order routes it depends on), server/storage.ts (the         *)
(* queries) and shared/schema.ts (the tables and their constraints).       *)
(* Text values (product codes, serial numbers) are sequences of one-       *)
(* character strings, so that formatting and parsing are computed and not  *)
(* assumed.  Every await of the handler is one step of the request; steps  *)
(* of different requests interleave freely.                                *)
(***************************************************************************)
EXTENDS Integers, Sequences, FiniteSets

VARIABLES machines, panels, orders, serials, users,
          nextMachineId, nextPanelId, nextOrderId, nextUserId, req, client

vars == <<machines, panels, orders, serials, users,
          nextMachineId, nextPanelId, nextOrderId, nextUserId, req, client>>

(* ----------------------------- bounds ---------------------------------- *)

\* request handlers that may be in flight at the same time
MaxRequests == 2
\* largest quantity of an order line
MaxQuantity == 2
\* longest machines list of an order body
MaxLines == 1
\* identity values the orders table hands out
MaxOrders == 2
\* identity values the machines table hands out
MaxMachines == 2
\* identity values the panels table hands out
MaxPanels == 1
\* identity values the users table hands out
MaxUsers == 2
\* length of the machines list of the orders that are created one at a time
MaxLinesInTurn == 2
\* the seed route is called while the next id of a user is at most this
MaxSeedUserId == 4
\* the seed route is called while the next id of a machine is at most this
MaxSeedMachineId == 6
\* calls of the browser's AuthService that may be awaiting at the same time
MaxCalls == 2

Requests == 1..MaxRequests

(* ----------------------------- values ---------------------------------- *)

\* undefined / null: a lookup yields the sequence of the rows it found,
\* of which the code takes the first, so "nothing found" is the empty one
None == <<>>

\* product codes an admin may type for a machine or a panel
Codes == { <<"A", "9">>, <<"A", "9", "0", "0", "1">>, <<"P">> }

\* NULL of a nullable integer column, an optional number left out
Null == 0

\* ids of the rows of the countries table (reference data)
Countries == {1}

\* country ids a request body may carry
CountryIds == {1, 2}

(* ------------------------- text and numbers ---------------------------- *)

DigitChars == <<"0", "1", "2", "3", "4", "5", "6", "7", "8", "9">>

\* the characters of the texts of the model, in collation order
Alphabet == DigitChars \o <<"A", "C", "D", "L", "N", "P", "R", "S">>

CharRank(c) == CHOOSE k \in 1..Len(Alphabet) : Alphabet[k] = c

\* \d of the regular expression
IsDigit(c) == \E k \in 1..10 : DigitChars[k] = c

DigitVal(c) == (CHOOSE k \in 1..10 : DigitChars[k] = c) - 1

\* the match of /(\d+)$/ : the longest run of digits that ends the text,
\* None (no match) when the text does not end with a digit
RECURSIVE TrailingDigitsFrom(_, _)
TrailingDigitsFrom(s, k) ==
    IF k >= 1 /\ IsDigit(s[k]) THEN TrailingDigitsFrom(s, k - 1)
    ELSE SubSeq(s, k + 1, Len(s))

TrailingDigits(s) ==
    TrailingDigitsFrom(s, Len(s))

\* parseInt of a run of decimal digits
RECURSIVE ParseInt(_)
ParseInt(ds) ==
    IF Len(ds) = 0 THEN 0
    ELSE 10 * ParseInt(SubSeq(ds, 1, Len(ds) - 1)) + DigitVal(ds[Len(ds)])

\* Number.prototype.toString of a non-negative integer
RECURSIVE ToString(_)
ToString(n) ==
    IF n < 10 THEN <<DigitChars[n + 1]>>
    ELSE ToString(n \div 10) \o <<DigitChars[(n % 10) + 1]>>

\* String.prototype.padStart with a one-character filler
RECURSIVE PadStart(_, _, _)
PadStart(s, width, fill) ==
    IF Len(s) >= width THEN s ELSE PadStart(<<fill>> \o s, width, fill)

(* --------------------------- storage queries --------------------------- *)

\* lexicographic order of two texts (the ORDER BY of a text column)
RECURSIVE TextLeq(_, _)
TextLeq(s, t) ==
    IF Len(s) = 0 THEN TRUE
    ELSE IF Len(t) = 0 THEN FALSE
    ELSE IF s[1] = t[1] THEN TextLeq(Tail(s), Tail(t))
    ELSE CharRank(s[1]) < CharRank(t[1])

\* the rows of the serials table, as a set
SerialRows == { serials[k] : k \in 1..Len(serials) }

\* storage.getMachine: the machine row with this id, or undefined
getMachine(id) ==
    IF \E m \in machines : m.id = id
    THEN <<CHOOSE m \in machines : m.id = id>>
    ELSE None

\* a set of rows with distinct ids as the sequence ordered by id
RECURSIVE RowsById(_)
RowsById(rows) ==
    IF rows = {} THEN <<>>
    ELSE LET first == CHOOSE p \in rows : \A q \in rows : p.id <= q.id
         IN  <<first>> \o RowsById(rows \ {first})

\* storage.getPanelsByMachine: the panels whose parent is this machine
getPanelsByMachine(machineId) ==
    RowsById({ p \in panels : p.parentMachineId = machineId })

\* WHERE clause of storage.getLastSerialByPrefix
MatchesPrefix(serialNumber, prefix) == serialNumber = prefix

\* storage.getSerialsByOrder: the serial rows of an order
getSerialsByOrder(orderId) ==
    SelectSeq(serials, LAMBDA s : s.orderId = orderId)

\* storage.getLastSerialByPrefix: of the rows the WHERE clause keeps, the
\* first one by serialNumber descending; undefined when there is none
getLastSerialByPrefix(prefix) ==
    LET hits == { s \in SerialRows : MatchesPrefix(s.serialNumber, prefix) }
    IN  IF hits = {} THEN None
        ELSE <<CHOOSE s \in hits :
                   \A t \in hits : TextLeq(t.serialNumber, s.serialNumber)>>

(* ------------------------- serial allocation --------------------------- *)

\* the next number of the allocation loops: 1, or the trailing number of
\* the last serial plus one
NextNumber(lastSerial) ==
    IF lastSerial = None THEN 1
    ELSE LET match == TrailingDigits(lastSerial[1].serialNumber)
         IN  IF match = None THEN 1 ELSE ParseInt(match) + 1

\* a fixed-width format: the number kept to its last three digits
SerialNumberWrapped(code, nextNumber) ==
    code \o PadStart(ToString(nextNumber % 1000), 3, "0")

\* `${code}${nextNumber.toString().padStart(3, '0')}`
SerialNumber(code, nextNumber) ==
    code \o PadStart(ToString(nextNumber), 3, "0")

\* the serial number one iteration of an allocation loop computes for a code
NextSerialNumber(code) ==
    SerialNumber(code, NextNumber(getLastSerialByPrefix(code)))

(* ---------------------------- request bodies --------------------------- *)

ProgressStatuses == {"Pending", "In Progress", "Completed", "Confirmed"}

PaymentStatuses == {"Pending", "Partial", "Paid"}

\* one entry of the machines list of an order body
Lines == [machineId : 1..MaxMachines, quantity : 0..MaxQuantity]

LineSeqs == UNION { [1..n -> Lines] : n \in 0..MaxLines }

\* the bodies a client may post to /api/orders
OrderBodies ==
    [machines : LineSeqs, countryId : CountryIds,
     progressStatus : {"Pending", "Shipped"}, paymentStatus : {"Pending"}]

\* insertOrderSchema.parse succeeds
insertOrderSchema(body) ==
    /\ body.progressStatus \in ProgressStatuses
    /\ body.paymentStatus \in PaymentStatuses
    /\ \A k \in 1..Len(body.machines) :
           /\ body.machines[k].machineId \in Int
           /\ body.machines[k].quantity \in Int

(* ------------------------- constraints of the tables ------------------- *)

\* orders.country_id references countries.id
OrderInsertOk(body) == body.countryId \in Countries

\* machines.product_code is unique
MachineInsertOk(code) == \A m \in machines : m.productCode # code

\* panels.panel_code is unique, panels.parent_machine_id references machines
PanelInsertOk(code, parent) ==
    /\ \A p \in panels : p.panelCode # code
    /\ \E m \in machines : m.id = parent

\* the check of a serials table without the unique index on serial_number
SerialNumbersNotChecked(batch) == TRUE

\* the check of an index that compares the new rows with the stored rows
\* only, not with each other
SerialNumbersUniqueInTableOnly(batch) ==
    \A k \in 1..Len(batch) :
        \A s \in SerialRows : s.serialNumber # batch[k].serialNumber

\* serials.serial_number is unique: over the rows of the statement and
\* the rows of the table
SerialNumbersUnique(batch) ==
    /\ \A j, k \in 1..Len(batch) :
           j # k => batch[j].serialNumber # batch[k].serialNumber
    /\ \A k \in 1..Len(batch) :
           \A s \in SerialRows : s.serialNumber # batch[k].serialNumber

\* serials.order_id, machine_id and panel_id reference their tables
SerialRefsOk(batch) ==
    \A k \in 1..Len(batch) :
        /\ \E o \in orders : o.id = batch[k].orderId
        /\ batch[k].machineId # Null => \E m \in machines : m.id = batch[k].machineId
        /\ batch[k].panelId # Null => \E p \in panels : p.id = batch[k].panelId

\* the INSERT of storage.createMultipleSerials is accepted
SerialsInsertOk(batch) == SerialNumbersUnique(batch) /\ SerialRefsOk(batch)

\* orders.id is referenced by serials.order_id with no ON DELETE action
OrderDeleteOk(id) == \A s \in SerialRows : s.orderId # id

(* ------------------------------- state --------------------------------- *)

\* a request slot with no request in flight
IdleReq ==
    [pc |-> "idle", route |-> "none", id |-> 0, message |-> "",
     machines |-> <<>>, orderId |-> 0, line |-> 0, i |-> 0,
     machine |-> None, panels |-> <<>>, panel |-> 0, skipped |-> 0,
     serialsToCreate |-> <<>>, status |-> 0]

\* a request slot that a request of a route, for the row of :id, has taken
Started(route, id) == [IdleReq EXCEPT !.route = route, !.id = id]

\* a call slot of the browser's AuthService with no call in flight; of a
\* call that awaits, token and user hold the body of the response it got
IdleCall == [pc |-> "idle", token |-> None, user |-> None]

\* new AuthService() in a page whose localStorage holds this 'auth_token'
\* entry: the constructor copies the entry, and no user is cached
AuthService(stored) ==
    [token |-> stored, user |-> None, stored |-> stored,
     reloading |-> FALSE, calls |-> [c \in 1..MaxCalls |-> IdleCall]]

Init ==
    /\ client = AuthService(None)
    /\ machines = {}
    /\ panels = {}
    /\ orders = {}
    /\ serials = <<>>
    /\ nextMachineId = 1
    /\ nextPanelId = 1
    /\ nextOrderId = 1
    /\ users = {}
    /\ nextUserId = 1
    /\ req = [r \in Requests |-> IdleReq]

(* ------------------------- POST /api/orders ---------------------------- *)

\* the message of the catch block of a handler: 'Validation error' goes
\* with the 400 of a ZodError, 'Server error' with the 500 of the rest;
\* a success carries the row and no message
CatchMessage(code) ==
    IF code = 400 THEN "Validation error"
    ELSE IF code = 500 THEN "Server error"
    ELSE ""

\* res.status(code).json(...): the handler is over
Responded(q, code) ==
    [q EXCEPT !.pc = "done", !.status = code, !.message = CatchMessage(code),
              !.line = 0, !.i = 0,
              !.machine = None, !.panels = <<>>, !.panel = 0]

\* the end of one turn of `for (const machineOrder of orderData.machines)`:
\* the next line, or past the loop the batch insert, or with an empty
\* batch the 201 at once
NextLine(q) ==
    IF q.line < Len(q.machines)
    THEN [q EXCEPT !.pc = "getMachine", !.line = @ + 1, !.i = 0,
                   !.machine = None, !.panels = <<>>, !.panel = 0]
    ELSE IF Len(q.serialsToCreate) > 0
    THEN [q EXCEPT !.pc = "insert", !.line = 0, !.i = 0,
                   !.machine = None, !.panels = <<>>, !.panel = 0]
    ELSE Responded(q, 201)

\* a strict handler: a missing machine fails the request
SkipLineThrows(q) == Responded([q EXCEPT !.skipped = @ + 1], 500)

\* a `break` in the place of the `continue`: the loop is over at the first
\* line whose machine is missing
SkipLineBreaks(q) ==
    IF Len(q.serialsToCreate) > 0
    THEN [q EXCEPT !.skipped = @ + 1, !.pc = "insert", !.line = 0, !.i = 0,
                   !.machine = None, !.panels = <<>>, !.panel = 0]
    ELSE Responded([q EXCEPT !.skipped = @ + 1], 201)

\* `if (!machine) continue;`
SkipLine(q) == NextLine([q EXCEPT !.skipped = @ + 1])

\* a handler that inserts the order row before it looks at the body: the
\* 400 of a body that does not parse comes after the insert
PostOrderInsertsFirst(r, body) ==
    /\ req[r].pc = "idle"
    /\ UNCHANGED <<machines, panels, serials, users,
                   nextMachineId, nextPanelId, nextUserId, client>>
    /\ nextOrderId <= MaxOrders
    /\ nextOrderId' = nextOrderId + 1
    /\ IF ~OrderInsertOk(body)
       THEN /\ req' = [req EXCEPT ![r] =
                         Responded(Started("POST /api/orders", 0), 500)]
            /\ UNCHANGED orders
       ELSE /\ orders' = orders \cup
                 {[id |-> nextOrderId, machines |-> body.machines,
                   progressStatus |-> body.progressStatus,
                   paymentStatus |-> body.paymentStatus]}
            /\ req' = [req EXCEPT ![r] =
                 IF ~insertOrderSchema(body)
                 THEN Responded(Started("POST /api/orders", 0), 400)
                 ELSE NextLine([Started("POST /api/orders", 0) EXCEPT
                                    !.machines = body.machines,
                                    !.orderId = nextOrderId])]

\* the handler up to and including storage.createOrder: a 400 when the
\* body does not parse, a 500 when the insert is rejected (the identity
\* value it drew is spent all the same)
PostOrder(r, body) ==
    /\ req[r].pc = "idle"
    /\ UNCHANGED <<machines, panels, serials, users,
                   nextMachineId, nextPanelId, nextUserId, client>>
    /\ IF ~insertOrderSchema(body)
       THEN /\ req' = [req EXCEPT ![r] =
                         Responded(Started("POST /api/orders", 0), 400)]
            /\ UNCHANGED <<orders, nextOrderId>>
       ELSE /\ nextOrderId <= MaxOrders
            /\ nextOrderId' = nextOrderId + 1
            /\ IF ~OrderInsertOk(body)
               THEN /\ req' = [req EXCEPT ![r] =
                         Responded(Started("POST /api/orders", 0), 500)]
                    /\ UNCHANGED orders
               ELSE /\ orders' = orders \cup
                         {[id |-> nextOrderId, machines |-> body.machines,
                           progressStatus |-> body.progressStatus,
                           paymentStatus |-> body.paymentStatus]}
                    /\ req' = [req EXCEPT ![r] =
                         NextLine([Started("POST /api/orders", 0) EXCEPT
                                       !.machines = body.machines,
                                       !.orderId = nextOrderId])]

\* `const machine = await storage.getMachine(machineOrder.machineId)`
GetMachine(r) ==
    LET q == req[r]
        machineOrder == q.machines[q.line]
        machine == getMachine(machineOrder.machineId)
    IN  /\ q.pc = "getMachine"
        /\ req' = [req EXCEPT ![r] =
              IF machine = None THEN SkipLine(q)
              ELSE IF 0 < machineOrder.quantity
              THEN [q EXCEPT !.pc = "machineSerial", !.machine = machine, !.i = 0]
              ELSE [q EXCEPT !.pc = "getPanels", !.machine = machine]]
        /\ UNCHANGED <<machines, panels, orders, serials, users,
                       nextMachineId, nextPanelId, nextOrderId, nextUserId, client>>

\* a machine loop that inserts each serial as soon as it is minted, with
\* storage.createSerial, and keeps no batch
MachineSerialInsertsAtOnce(r) ==
    LET q == req[r]
        machineOrder == q.machines[q.line]
        machine == q.machine[1]
        entry == [orderId |-> q.orderId, machineId |-> machine.id,
                  panelId |-> Null,
                  serialNumber |-> NextSerialNumber(machine.productCode)]
    IN  /\ q.pc = "machineSerial"
        /\ serials' = IF SerialsInsertOk(<<entry>>)
                       THEN Append(serials, entry) ELSE serials
        /\ req' = [req EXCEPT ![r] =
              IF ~SerialsInsertOk(<<entry>>) THEN Responded(q, 500)
              ELSE [q EXCEPT !.i = q.i + 1,
                             !.pc = IF q.i + 1 < machineOrder.quantity
                                    THEN "machineSerial" ELSE "getPanels"]]
        /\ UNCHANGED <<machines, panels, orders, users,
                       nextMachineId, nextPanelId, nextOrderId, nextUserId, client>>

\* one turn of the machine loop: the lookup, the number, the push
MachineSerial(r) ==
    LET q == req[r]
        machineOrder == q.machines[q.line]
        machine == q.machine[1]
        entry == [orderId |-> q.orderId, machineId |-> machine.id,
                  panelId |-> Null,
                  serialNumber |-> NextSerialNumber(machine.productCode)]
    IN  /\ q.pc = "machineSerial"
        /\ req' = [req EXCEPT ![r] =
              [q EXCEPT !.serialsToCreate = Append(@, entry),
                        !.i = q.i + 1,
                        !.pc = IF q.i + 1 < machineOrder.quantity
                               THEN "machineSerial" ELSE "getPanels"]]
        /\ UNCHANGED <<machines, panels, orders, serials, users,
                       nextMachineId, nextPanelId, nextOrderId, nextUserId, client>>

\* `const panels = await storage.getPanelsByMachine(machineOrder.machineId)`
GetPanels(r) ==
    LET q == req[r]
        machineOrder == q.machines[q.line]
        found == getPanelsByMachine(machineOrder.machineId)
    IN  /\ q.pc = "getPanels"
        /\ req' = [req EXCEPT ![r] =
              IF Len(found) > 0 /\ 0 < machineOrder.quantity
              THEN [q EXCEPT !.pc = "panelSerial", !.panels = found,
                             !.panel = 1, !.i = 0]
              ELSE NextLine(q)]
        /\ UNCHANGED <<machines, panels, orders, serials, users,
                       nextMachineId, nextPanelId, nextOrderId, nextUserId, client>>

\* a panel loop whose entries carry the parent machine as well as the panel
PanelSerialWithParent(r) ==
    LET q == req[r]
        machineOrder == q.machines[q.line]
        panel == q.panels[q.panel]
        entry == [orderId |-> q.orderId, machineId |-> panel.parentMachineId,
                  panelId |-> panel.id,
                  serialNumber |-> NextSerialNumber(panel.panelCode)]
        pushed == [q EXCEPT !.serialsToCreate = Append(@, entry)]
    IN  /\ q.pc = "panelSerial"
        /\ req' = [req EXCEPT ![r] =
              IF q.i + 1 < machineOrder.quantity
              THEN [pushed EXCEPT !.i = q.i + 1]
              ELSE IF q.panel < Len(q.panels)
              THEN [pushed EXCEPT !.panel = q.panel + 1, !.i = 0]
              ELSE NextLine(pushed)]
        /\ UNCHANGED <<machines, panels, orders, serials, users,
                       nextMachineId, nextPanelId, nextOrderId, nextUserId, client>>

\* one turn of the inner panel loop: the lookup, the number, the push
PanelSerial(r) ==
    LET q == req[r]
        machineOrder == q.machines[q.line]
        panel == q.panels[q.panel]
        entry == [orderId |-> q.orderId, machineId |-> Null,
                  panelId |-> panel.id,
                  serialNumber |-> NextSerialNumber(panel.panelCode)]
        pushed == [q EXCEPT !.serialsToCreate = Append(@, entry)]
    IN  /\ q.pc = "panelSerial"
        /\ req' = [req EXCEPT ![r] =
              IF q.i + 1 < machineOrder.quantity
              THEN [pushed EXCEPT !.i = q.i + 1]
              ELSE IF q.panel < Len(q.panels)
              THEN [pushed EXCEPT !.panel = q.panel + 1, !.i = 0]
              ELSE NextLine(pushed)]
        /\ UNCHANGED <<machines, panels, orders, serials, users,
                       nextMachineId, nextPanelId, nextOrderId, nextUserId, client>>

\* storage.createMultipleSerials: one INSERT statement, all rows or none
createMultipleSerials(batch) ==
    IF SerialsInsertOk(batch) THEN serials \o batch ELSE serials

\* an insert with ON CONFLICT DO NOTHING: the rows whose serial number is
\* not stored yet are kept, the others are dropped, and the answer is 201
InsertSerialsSkippingConflicts(r) ==
    LET q == req[r]
    IN  /\ q.pc = "insert"
        /\ serials' = serials \o
               SelectSeq(q.serialsToCreate,
                         LAMBDA e : \A s \in SerialRows :
                                        s.serialNumber # e.serialNumber)
        /\ req' = [req EXCEPT ![r] = Responded(q, 201)]
        /\ UNCHANGED <<machines, panels, orders, users,
                       nextMachineId, nextPanelId, nextOrderId, nextUserId, client>>

\* `await storage.createMultipleSerials(serialsToCreate)`, then 201, or
\* the catch block's 500 when the statement is rejected
InsertSerials(r) ==
    LET q == req[r]
    IN  /\ q.pc = "insert"
        /\ serials' = createMultipleSerials(q.serialsToCreate)
        /\ req' = [req EXCEPT ![r] =
              Responded(q, IF SerialsInsertOk(q.serialsToCreate) THEN 201 ELSE 500)]
        /\ UNCHANGED <<machines, panels, orders, users,
                       nextMachineId, nextPanelId, nextOrderId, nextUserId, client>>

\* the response has gone out; the slot takes the next request
EndRequest(r) ==
    /\ req[r].pc = "done"
    /\ req' = [req EXCEPT ![r] = IdleReq]
    /\ UNCHANGED <<machines, panels, orders, serials, users,
                   nextMachineId, nextPanelId, nextOrderId, nextUserId, client>>

(* --------------------------- catalog and orders ------------------------ *)

\* POST /api/machines: the insert, or a 500 when the code is taken
CreateMachine(code) ==
    /\ nextMachineId <= MaxMachines
    /\ nextMachineId' = nextMachineId + 1
    /\ machines' = IF MachineInsertOk(code)
                   THEN machines \cup {[id |-> nextMachineId, productCode |-> code]}
                   ELSE machines
    /\ UNCHANGED <<panels, orders, serials, users,
                   nextPanelId, nextOrderId, nextUserId, req, client>>

\* POST /api/panels: the insert, or a 500 when a constraint rejects it
CreatePanel(code, parent) ==
    /\ nextPanelId <= MaxPanels
    /\ nextPanelId' = nextPanelId + 1
    /\ panels' = IF PanelInsertOk(code, parent)
                 THEN panels \cup {[id |-> nextPanelId, panelCode |-> code,
                                    parentMachineId |-> parent]}
                 ELSE panels
    /\ UNCHANGED <<machines, orders, serials, users,
                   nextMachineId, nextOrderId, nextUserId, req, client>>

\* DELETE /api/orders/:id: the delete, or a 500 when a serial refers to it
DeleteOrder(id) ==
    /\ \E o \in orders : o.id = id
    /\ orders' = IF OrderDeleteOk(id)
                 THEN { o \in orders : o.id # id }
                 ELSE orders
    /\ UNCHANGED <<machines, panels, serials, users,
                   nextMachineId, nextPanelId, nextOrderId, nextUserId, req, client>>

(* ---------------------------- specification ---------------------------- *)

Next ==
    \/ \E r \in Requests, body \in OrderBodies : PostOrder(r, body)
    \/ \E r \in Requests : GetMachine(r)
    \/ \E r \in Requests : MachineSerial(r)
    \/ \E r \in Requests : GetPanels(r)
    \/ \E r \in Requests : PanelSerial(r)
    \/ \E r \in Requests : InsertSerials(r)
    \/ \E r \in Requests : EndRequest(r)
    \/ \E code \in Codes : CreateMachine(code)
    \/ \E code \in Codes, parent \in 1..MaxMachines : CreatePanel(code, parent)
    \/ \E id \in 1..MaxOrders : DeleteOrder(id)

Spec == Init /\ [][Next]_vars

(* ------------------------------- users --------------------------------- *)

Roles == {"Admin", "Tech"}

Usernames == {"admin", "tech"}

Emails == {"admin@company.com", "tech@company.com"}

\* the passwords of the seed, and a password a client makes up
Passwords == {"admin123", "tech123", "chosen"}

\* bcrypt.hash: what createUser stores in the place of the password
Hash(password) == <<"bcrypt", password>>

\* bcrypt.compare of a password with a stored hash
Compare(password, hashed) == hashed = Hash(password)

\* the bodies a client may post to /api/auth/register
UserBodies ==
    [username : Usernames, email : Emails, password : Passwords,
     role : Roles \cup {"Guest"}]

\* insertUserSchema.parse succeeds
insertUserSchema(body) == body.role \in Roles

\* storage.getUser: the user row with this id, or undefined
getUser(id) ==
    IF \E u \in users : u.id = id
    THEN <<CHOOSE u \in users : u.id = id>>
    ELSE None

\* storage.getUserByUsername
getUserByUsername(username) ==
    IF \E u \in users : u.username = username
    THEN <<CHOOSE u \in users : u.username = username>>
    ELSE None

\* storage.getUserByEmail
getUserByEmail(email) ==
    IF \E u \in users : u.email = email
    THEN <<CHOOSE u \in users : u.email = email>>
    ELSE None

\* storage.createUser: the row of a body, with the password hashed
UserRow(id, body) ==
    [id |-> id, username |-> body.username, email |-> body.email,
     password |-> Hash(body.password), role |-> body.role]

(* ----------------------------- middleware ------------------------------ *)

\* what the Authorization header of a request amounts to for jwt.verify:
\* no token, a token that does not verify (malformed, forged or expired),
\* or a token signed for a user id
NoToken == [kind |-> "none", userId |-> 0]

BadToken == [kind |-> "invalid", userId |-> 0]

SignedToken(userId) == [kind |-> "signed", userId |-> userId]

Credentials == {NoToken, BadToken} \cup { SignedToken(u) : u \in 1..MaxUsers }

\* res.status(code).json({ message }) of a middleware
Refusal(code, message) == [status |-> code, message |-> message]

\* next(): the middleware lets the request through
Pass == [status |-> 0, message |-> ""]

\* authenticateToken: what it answers, or Pass
authenticateToken(cred) ==
    IF cred.kind = "none" THEN Refusal(401, "Access token required")
    ELSE IF cred.kind = "invalid" THEN Refusal(403, "Invalid token")
    ELSE IF getUser(cred.userId) = None THEN Refusal(401, "Invalid token")
    ELSE Pass

\* a requireAdmin that lets every authenticated user through
requireAdminOmitted(user) == Pass

\* requireAdmin: what it answers for req.user, or Pass
requireAdmin(user) ==
    IF user.role # "Admin" THEN Refusal(403, "Admin access required")
    ELSE Pass

\* the chain `authenticateToken, requireAdmin` of a route
AdminOnly(cred) ==
    IF authenticateToken(cred) # Pass THEN authenticateToken(cred)
    ELSE requireAdmin(getUser(cred.userId)[1])

(* ------------------- bodies of the catalog and order routes ------------ *)

\* a JSON value that is not a string, where the schema wants z.string()
NotText == <<"#">>

IsText(v) == v # NotText

\* a field of a partial body is present
Has(body, field) == field \in DOMAIN body

\* product codes of the bodies of the catalog routes
ApiCodes == { <<"A", "9">>, <<"P">> }

\* the bodies a client may post to /api/machines
MachineBodies == [productCode : ApiCodes \cup {NotText}]

\* insertMachineSchema.parse succeeds
insertMachineSchema(body) == IsText(body.productCode)

\* the bodies a client may put to /api/machines/:id: a new name, with or
\* without a productCode
MachinePatches ==
    {[name |-> "renamed"]} \cup
    { [name |-> "renamed", productCode |-> c] : c \in ApiCodes \cup {NotText} }

\* insertMachineSchema.partial().parse succeeds
partialMachineSchema(body) ==
    Has(body, "productCode") => IsText(body.productCode)

\* the bodies a client may post to /api/panels
PanelBodies ==
    [panelCode : ApiCodes \cup {NotText}, parentMachineId : 1..MaxMachines]

\* insertPanelSchema.parse succeeds
insertPanelSchema(body) == IsText(body.panelCode)

\* the bodies a client may put to /api/panels/:id
PanelPatches ==
    {[name |-> "renamed"]} \cup
    { [name |-> "renamed", panelCode |-> c] : c \in ApiCodes \cup {NotText} } \cup
    { [name |-> "renamed", parentMachineId |-> m] : m \in 1..MaxMachines }

\* insertPanelSchema.partial().parse succeeds
partialPanelSchema(body) ==
    Has(body, "panelCode") => IsText(body.panelCode)

\* the bodies a client may patch or put to /api/orders/:id: a customer
\* name, with or without either status
OrderPatches ==
    {[customerName |-> "renamed"]} \cup
    { [customerName |-> "renamed", progressStatus |-> s] :
          s \in ProgressStatuses \cup {"Shipped"} } \cup
    { [customerName |-> "renamed", paymentStatus |-> s] :
          s \in PaymentStatuses \cup {"Refunded"} } \cup
    { [customerName |-> "renamed", progressStatus |-> s, paymentStatus |-> t] :
          s \in ProgressStatuses \cup {"Shipped"},
          t \in PaymentStatuses \cup {"Refunded"} }

\* the bodies that replace the machines list of an order: by the empty
\* list, or by one line of another quantity
OrderLinePatches ==
    { [customerName |-> "renamed", machines |-> ls] :
          ls \in { <<>> } \cup
                 { <<[machineId |-> m, quantity |-> MaxQuantity]>> :
                       m \in 1..MaxMachines } }

\* insertOrderSchema.partial().parse succeeds
partialOrderSchema(body) ==
    /\ Has(body, "progressStatus") => body.progressStatus \in ProgressStatuses
    /\ Has(body, "paymentStatus") => body.paymentStatus \in PaymentStatuses
    /\ Has(body, "machines") =>
           \A k \in 1..Len(body.machines) :
               /\ body.machines[k].machineId \in Int
               /\ body.machines[k].quantity \in Int

(* --------------------- constraints on update and delete ---------------- *)

\* the check of a machines table whose UPDATE is under no unique index
MachineUpdateNotChecked(id, body) == TRUE

\* machines.product_code stays unique under an UPDATE of the row of id
MachineUpdateOk(id, body) ==
    (Has(body, "productCode") /\ \E m \in machines : m.id = id)
        => \A m \in machines : m.id # id => m.productCode # body.productCode

\* machines.id is referenced by panels.parent_machine_id and by
\* serials.machine_id, with no ON DELETE action
MachineDeleteOk(id) ==
    /\ \A p \in panels : p.parentMachineId # id
    /\ \A s \in SerialRows : s.machineId # id

\* panels.panel_code stays unique and panels.parent_machine_id stays a
\* reference under an UPDATE of the row of id
PanelUpdateOk(id, body) ==
    (\E p \in panels : p.id = id)
        => /\ Has(body, "panelCode") =>
                  \A p \in panels : p.id # id => p.panelCode # body.panelCode
           /\ Has(body, "parentMachineId") =>
                  \E m \in machines : m.id = body.parentMachineId

\* panels.id is referenced by serials.panel_id, with no ON DELETE action
PanelDeleteOk(id) == \A s \in SerialRows : s.panelId # id

(* ------------------------ storage updates ------------------------------ *)

\* storage.updateMachine: the machines table after the UPDATE
updateMachine(id, body) ==
    { IF m.id = id /\ Has(body, "productCode")
      THEN [m EXCEPT !.productCode = body.productCode] ELSE m : m \in machines }

\* storage.updatePanel: the panels table after the UPDATE
updatePanel(id, body) ==
    { IF p.id # id THEN p
      ELSE [p EXCEPT !.panelCode =
                         IF Has(body, "panelCode") THEN body.panelCode ELSE @,
                     !.parentMachineId =
                         IF Has(body, "parentMachineId")
                         THEN body.parentMachineId ELSE @] : p \in panels }

\* the rank of a progress status in the order Pending, In Progress,
\* Completed, Confirmed
ProgressRank(status) ==
    IF status = "Pending" THEN 1
    ELSE IF status = "In Progress" THEN 2
    ELSE IF status = "Completed" THEN 3
    ELSE 4

\* an UPDATE under a transition graph: the progress status only moves
\* forward, a step backwards is dropped
updateOrderForwardOnly(id, body) ==
    { IF o.id # id THEN o
      ELSE [o EXCEPT !.progressStatus =
                         IF Has(body, "progressStatus")
                            /\ ProgressRank(body.progressStatus)
                                  >= ProgressRank(o.progressStatus)
                         THEN body.progressStatus ELSE @,
                     !.paymentStatus =
                         IF Has(body, "paymentStatus")
                         THEN body.paymentStatus ELSE @] : o \in orders }

\* storage.updateOrder: the orders table after the UPDATE
updateOrder(id, body) ==
    { IF o.id # id THEN o
      ELSE [o EXCEPT !.progressStatus =
                         IF Has(body, "progressStatus")
                         THEN body.progressStatus ELSE @,
                     !.paymentStatus =
                         IF Has(body, "paymentStatus")
                         THEN body.paymentStatus ELSE @,
                     !.machines =
                         IF Has(body, "machines")
                         THEN body.machines ELSE @] : o \in orders }

(* ------------------ the routes, one request at a time ------------------ *)

\* the slot of the requests that are served one at a time
ApiRequests == {1}

\* res.status(code) of a handler that is over in one step
Answer(r, route, id, code) ==
    req' = [req EXCEPT ![r] = Responded(Started(route, id), code)]

\* res.status(code).json({ message }) of a request that is over in one step
AnswerWith(r, route, code, message) ==
    req' = [req EXCEPT ![r] =
              [Responded(Started(route, 0), code) EXCEPT !.message = message]]

\* POST /api/auth/register: the checks and the insert.  With one request
\* in flight nothing comes between the awaits of the handler.
Register(r, body) ==
    /\ req[r].pc = "idle"
    /\ UNCHANGED <<machines, panels, orders, serials,
                   nextMachineId, nextPanelId, nextOrderId, client>>
    /\ IF ~insertUserSchema(body)
       THEN /\ Answer(r, "POST /api/auth/register", 0, 400)
            /\ UNCHANGED <<users, nextUserId>>
       ELSE IF getUserByUsername(body.username) # None
       THEN /\ AnswerWith(r, "POST /api/auth/register", 400,
                           "Username already exists")
            /\ UNCHANGED <<users, nextUserId>>
       ELSE IF getUserByEmail(body.email) # None
       THEN /\ AnswerWith(r, "POST /api/auth/register", 400,
                           "Email already exists")
            /\ UNCHANGED <<users, nextUserId>>
       ELSE /\ nextUserId <= MaxUsers
            /\ nextUserId' = nextUserId + 1
            /\ users' = users \cup {UserRow(nextUserId, body)}
            /\ Answer(r, "POST /api/auth/register", nextUserId, 201)

\* POST /api/machines behind the middleware
PostMachine(r, body) ==
    /\ req[r].pc = "idle"
    /\ UNCHANGED <<panels, orders, serials, users,
                   nextPanelId, nextOrderId, nextUserId, client>>
    /\ IF ~insertMachineSchema(body)
       THEN /\ Answer(r, "POST /api/machines", 0, 400)
            /\ UNCHANGED <<machines, nextMachineId>>
       ELSE /\ nextMachineId <= MaxMachines
            /\ nextMachineId' = nextMachineId + 1
            /\ IF MachineInsertOk(body.productCode)
               THEN /\ machines' = machines \cup
                          {[id |-> nextMachineId,
                            productCode |-> body.productCode]}
                    /\ Answer(r, "POST /api/machines", nextMachineId, 201)
               ELSE /\ UNCHANGED machines
                    /\ Answer(r, "POST /api/machines", 0, 500)

\* PUT /api/machines/:id behind the middleware
PutMachine(r, id, body) ==
    /\ req[r].pc = "idle"
    /\ UNCHANGED <<panels, orders, serials, users,
                   nextMachineId, nextPanelId, nextOrderId, nextUserId, client>>
    /\ IF ~partialMachineSchema(body)
       THEN Answer(r, "PUT /api/machines/:id", id, 400) /\ UNCHANGED machines
       ELSE IF ~MachineUpdateOk(id, body)
       THEN Answer(r, "PUT /api/machines/:id", id, 500) /\ UNCHANGED machines
       ELSE /\ machines' = updateMachine(id, body)
            /\ Answer(r, "PUT /api/machines/:id", id, 200)

\* a delete on a machines table that nothing references
DeleteMachineUnchecked(r, id) ==
    /\ req[r].pc = "idle"
    /\ UNCHANGED <<panels, orders, serials, users,
                   nextMachineId, nextPanelId, nextOrderId, nextUserId, client>>
    /\ machines' = { m \in machines : m.id # id }
    /\ Answer(r, "DELETE /api/machines/:id", id, 204)

\* DELETE /api/machines/:id behind the middleware
DeleteMachine(r, id) ==
    /\ req[r].pc = "idle"
    /\ UNCHANGED <<panels, orders, serials, users,
                   nextMachineId, nextPanelId, nextOrderId, nextUserId, client>>
    /\ IF MachineDeleteOk(id)
       THEN /\ machines' = { m \in machines : m.id # id }
            /\ Answer(r, "DELETE /api/machines/:id", id, 204)
       ELSE /\ UNCHANGED machines
            /\ Answer(r, "DELETE /api/machines/:id", id, 500)

\* POST /api/panels behind the middleware
PostPanel(r, body) ==
    /\ req[r].pc = "idle"
    /\ UNCHANGED <<machines, orders, serials, users,
                   nextMachineId, nextOrderId, nextUserId, client>>
    /\ IF ~insertPanelSchema(body)
       THEN /\ Answer(r, "POST /api/panels", 0, 400)
            /\ UNCHANGED <<panels, nextPanelId>>
       ELSE /\ nextPanelId <= MaxPanels
            /\ nextPanelId' = nextPanelId + 1
            /\ IF PanelInsertOk(body.panelCode, body.parentMachineId)
               THEN /\ panels' = panels \cup
                          {[id |-> nextPanelId, panelCode |-> body.panelCode,
                            parentMachineId |-> body.parentMachineId]}
                    /\ Answer(r, "POST /api/panels", nextPanelId, 201)
               ELSE /\ UNCHANGED panels
                    /\ Answer(r, "POST /api/panels", 0, 500)

\* PUT /api/panels/:id behind the middleware
PutPanel(r, id, body) ==
    /\ req[r].pc = "idle"
    /\ UNCHANGED <<machines, orders, serials, users,
                   nextMachineId, nextPanelId, nextOrderId, nextUserId, client>>
    /\ IF ~partialPanelSchema(body)
       THEN Answer(r, "PUT /api/panels/:id", id, 400) /\ UNCHANGED panels
       ELSE IF ~PanelUpdateOk(id, body)
       THEN Answer(r, "PUT /api/panels/:id", id, 500) /\ UNCHANGED panels
       ELSE /\ panels' = updatePanel(id, body)
            /\ Answer(r, "PUT /api/panels/:id", id, 200)

\* DELETE /api/panels/:id behind the middleware
DeletePanel(r, id) ==
    /\ req[r].pc = "idle"
    /\ UNCHANGED <<machines, orders, serials, users,
                   nextMachineId, nextPanelId, nextOrderId, nextUserId, client>>
    /\ IF PanelDeleteOk(id)
       THEN /\ panels' = { p \in panels : p.id # id }
            /\ Answer(r, "DELETE /api/panels/:id", id, 204)
       ELSE /\ UNCHANGED panels
            /\ Answer(r, "DELETE /api/panels/:id", id, 500)

\* an update handler that brings the serials in line with the order: a
\* body that replaces the machines list drops the serials of the order
UpdateOrderDroppingSerials(r, route, id, body) ==
    /\ req[r].pc = "idle"
    /\ UNCHANGED <<machines, panels, users,
                   nextMachineId, nextPanelId, nextOrderId, nextUserId, client>>
    /\ IF ~partialOrderSchema(body)
       THEN Answer(r, route, id, 400) /\ UNCHANGED <<orders, serials>>
       ELSE /\ orders' = updateOrder(id, body)
            /\ serials' = IF Has(body, "machines")
                           THEN SelectSeq(serials, LAMBDA s : s.orderId # id)
                           ELSE serials
            /\ Answer(r, route, id, 200)

\* the handler PATCH /api/orders/:id and PUT /api/orders/:id share
UpdateOrder(r, route, id, body) ==
    /\ req[r].pc = "idle"
    /\ UNCHANGED <<machines, panels, serials, users,
                   nextMachineId, nextPanelId, nextOrderId, nextUserId, client>>
    /\ IF ~partialOrderSchema(body)
       THEN Answer(r, route, id, 400) /\ UNCHANGED orders
       ELSE /\ orders' = updateOrder(id, body)
            /\ Answer(r, route, id, 200)

\* PATCH /api/orders/:id behind the middleware
PatchOrder(r, id, body) == UpdateOrder(r, "PATCH /api/orders/:id", id, body)

\* PUT /api/orders/:id behind the middleware
PutOrder(r, id, body) == UpdateOrder(r, "PUT /api/orders/:id", id, body)

\* a delete that takes the serials of the order with it
DeleteOrderCascading(r, id) ==
    /\ req[r].pc = "idle"
    /\ UNCHANGED <<machines, panels, users,
                   nextMachineId, nextPanelId, nextOrderId, nextUserId, client>>
    /\ orders' = { o \in orders : o.id # id }
    /\ serials' = SelectSeq(serials, LAMBDA s : s.orderId # id)
    /\ Answer(r, "DELETE /api/orders/:id", id, 204)

\* DELETE /api/orders/:id behind the middleware, with its answer: 204, or
\* the catch block's 500 when a serial refers to the order
DeleteOrderById(r, id) ==
    /\ req[r].pc = "idle"
    /\ UNCHANGED <<machines, panels, serials, users,
                   nextMachineId, nextPanelId, nextOrderId, nextUserId, client>>
    /\ IF OrderDeleteOk(id)
       THEN /\ orders' = { o \in orders : o.id # id }
            /\ Answer(r, "DELETE /api/orders/:id", id, 204)
       ELSE /\ UNCHANGED orders
            /\ Answer(r, "DELETE /api/orders/:id", id, 500)

\* a route registered with `authenticateToken, requireAdmin`: the answer
\* of the middleware, or the handler
Guarded(r, cred, route, handler) ==
    /\ req[r].pc = "idle"
    /\ IF AdminOnly(cred) = Pass THEN handler
       ELSE /\ UNCHANGED <<machines, panels, orders, serials, users,
                           nextMachineId, nextPanelId, nextOrderId,
                           nextUserId, client>>
            /\ AnswerWith(r, route, AdminOnly(cred).status,
                          AdminOnly(cred).message)

\* the bodies of the requests served one at a time: the two users of the
\* seed and a body with a role outside the enumeration
ApiUserBodies ==
    { [username |-> "admin", email |-> "admin@company.com",
       password |-> "admin123", role |-> "Admin"],
      [username |-> "tech", email |-> "tech@company.com",
       password |-> "tech123", role |-> "Tech"],
      [username |-> "tech", email |-> "tech@company.com",
       password |-> "tech123", role |-> "Guest"] }

\* one unit of one machine, with a progress status inside or outside the
\* enumeration
ApiOrderBodies ==
    { b \in OrderBodies :
          /\ b.countryId \in Countries
          /\ Len(b.machines) = 1
          /\ b.machines[1].quantity = 1 }

ApiOrderPatches ==
    { b \in OrderPatches :
          /\ Has(b, "progressStatus") => b.progressStatus \in {"Completed", "Shipped"}
          /\ ~Has(b, "paymentStatus") }

\* a request of one of the create, update and delete routes of machines,
\* panels and orders, with the credentials it carries
AdminRequest(r, cred) ==
    \/ Guarded(r, cred, "POST /api/machines",
               \E body \in MachineBodies : PostMachine(r, body))
    \/ Guarded(r, cred, "PUT /api/machines/:id",
               \E id \in 1..MaxMachines, body \in MachinePatches :
                   PutMachine(r, id, body))
    \/ Guarded(r, cred, "DELETE /api/machines/:id",
               \E id \in 1..MaxMachines : DeleteMachine(r, id))
    \/ Guarded(r, cred, "POST /api/panels",
               \E body \in PanelBodies : PostPanel(r, body))
    \/ Guarded(r, cred, "PUT /api/panels/:id",
               \E id \in 1..MaxPanels, body \in PanelPatches :
                   PutPanel(r, id, body))
    \/ Guarded(r, cred, "DELETE /api/panels/:id",
               \E id \in 1..MaxPanels : DeletePanel(r, id))
    \/ Guarded(r, cred, "POST /api/orders",
               \E body \in ApiOrderBodies : PostOrder(r, body))
    \/ Guarded(r, cred, "PATCH /api/orders/:id",
               \E id \in 1..MaxOrders, body \in ApiOrderPatches :
                   PatchOrder(r, id, body))
    \/ Guarded(r, cred, "PUT /api/orders/:id",
               \E id \in 1..MaxOrders, body \in ApiOrderPatches :
                   PutOrder(r, id, body))
    \/ Guarded(r, cred, "DELETE /api/orders/:id",
               \E id \in 1..MaxOrders : DeleteOrderById(r, id))

NextApi ==
    \/ \E r \in ApiRequests, body \in ApiUserBodies : Register(r, body)
    \/ \E r \in ApiRequests, cred \in Credentials : AdminRequest(r, cred)
    \/ \E r \in ApiRequests : GetMachine(r)
    \/ \E r \in ApiRequests : MachineSerial(r)
    \/ \E r \in ApiRequests : GetPanels(r)
    \/ \E r \in ApiRequests : PanelSerial(r)
    \/ \E r \in ApiRequests : InsertSerials(r)
    \/ \E r \in ApiRequests : EndRequest(r)

SpecApi == Init /\ [][NextApi]_vars

(* ------------------- orders and their status updates ------------------ *)

\* registration, order creation while the catalog is empty, and the two
\* update routes with every body of OrderPatches
NextStatus ==
    \/ \E r \in ApiRequests, body \in ApiUserBodies : Register(r, body)
    \/ \E r \in ApiRequests, cred \in Credentials :
           Guarded(r, cred, "POST /api/orders",
                   \E body \in ApiOrderBodies : PostOrder(r, body))
    \/ \E r \in ApiRequests, cred \in Credentials :
           Guarded(r, cred, "PATCH /api/orders/:id",
                   \E id \in 1..MaxOrders, body \in OrderPatches :
                       PatchOrder(r, id, body))
    \/ \E r \in ApiRequests, cred \in Credentials :
           Guarded(r, cred, "PUT /api/orders/:id",
                   \E id \in 1..MaxOrders, body \in OrderPatches :
                       PutOrder(r, id, body))
    \/ \E r \in ApiRequests : GetMachine(r)
    \/ \E r \in ApiRequests : EndRequest(r)

SpecStatus == Init /\ [][NextStatus]_vars

(* ------------------ orders of several lines, one at a time ------------- *)

\* bodies whose machines list has MaxLinesInTurn lines of one unit each,
\* of machines that may or may not exist
LinesBodies ==
    [machines : [1..MaxLinesInTurn -> { l \in Lines : l.quantity = 1 }],
     countryId : Countries,
     progressStatus : {"Pending"}, paymentStatus : {"Pending"}]

\* the catalog grows while orders of several lines are created one after
\* the other
NextLines ==
    \/ \E r \in ApiRequests, body \in LinesBodies : PostOrder(r, body)
    \/ \E r \in ApiRequests : GetMachine(r)
    \/ \E r \in ApiRequests : MachineSerial(r)
    \/ \E r \in ApiRequests : GetPanels(r)
    \/ \E r \in ApiRequests : PanelSerial(r)
    \/ \E r \in ApiRequests : InsertSerials(r)
    \/ \E r \in ApiRequests : EndRequest(r)
    \/ \E code \in ApiCodes : CreateMachine(code)
    \/ \E code \in ApiCodes, parent \in 1..MaxMachines : CreatePanel(code, parent)

SpecLines == Init /\ [][NextLines]_vars

(* ------------------- orders and the updates of their lines ------------- *)

\* the bodies of the updates that follow an order creation: a status, a
\* customer name only, or another machines list
ApiOrderUpdates == ApiOrderPatches \cup OrderLinePatches

\* an Admin is registered, machines are created, orders are created and
\* then updated by PATCH and by PUT
NextUpdate ==
    \/ \E r \in ApiRequests, body \in ApiUserBodies : Register(r, body)
    \/ \E r \in ApiRequests, cred \in Credentials :
           Guarded(r, cred, "POST /api/machines",
                   \E body \in MachineBodies : PostMachine(r, body))
    \/ \E r \in ApiRequests, cred \in Credentials :
           Guarded(r, cred, "POST /api/orders",
                   \E body \in ApiOrderBodies : PostOrder(r, body))
    \/ \E r \in ApiRequests, cred \in Credentials :
           Guarded(r, cred, "PATCH /api/orders/:id",
                   \E id \in 1..MaxOrders, body \in ApiOrderUpdates :
                       PatchOrder(r, id, body))
    \/ \E r \in ApiRequests, cred \in Credentials :
           Guarded(r, cred, "PUT /api/orders/:id",
                   \E id \in 1..MaxOrders, body \in ApiOrderUpdates :
                       PutOrder(r, id, body))
    \/ \E r \in ApiRequests : GetMachine(r)
    \/ \E r \in ApiRequests : MachineSerial(r)
    \/ \E r \in ApiRequests : GetPanels(r)
    \/ \E r \in ApiRequests : InsertSerials(r)
    \/ \E r \in ApiRequests : EndRequest(r)

SpecUpdate == Init /\ [][NextUpdate]_vars

(* ---------------------- login and the seed route ----------------------- *)

\* the bodies a client may post to /api/auth/login
LoginBodies == [username : Usernames, password : Passwords]

\* POST /api/auth/login: 401 for a username that is not stored and for a
\* password that does not compare, else 200 with a token signed for the id
\* of the user, which is the id of the answer
Login(r, body) ==
    LET user == getUserByUsername(body.username)
    IN  /\ req[r].pc = "idle"
        /\ UNCHANGED <<machines, panels, orders, serials, users,
                       nextMachineId, nextPanelId, nextOrderId, nextUserId, client>>
        /\ IF user = None
           THEN AnswerWith(r, "POST /api/auth/login", 401, "Invalid credentials")
           ELSE IF ~Compare(body.password, user[1].password)
           THEN AnswerWith(r, "POST /api/auth/login", 401, "Invalid credentials")
           ELSE Answer(r, "POST /api/auth/login", user[1].id, 200)

\* the two users of the seed
SeedAdmin ==
    [username |-> "admin", email |-> "admin@company.com",
     password |-> "admin123", role |-> "Admin"]

SeedTech ==
    [username |-> "tech", email |-> "tech@company.com",
     password |-> "tech123", role |-> "Tech"]

\* the product codes of the three machines of the seed
SeedCodes ==
    << <<"C", "N", "C", "0", "0", "1">>,
       <<"L", "S", "R", "2", "0", "0">>,
       <<"3", "D", "P", "3", "0", "0">> >>

\* String.prototype.slice(-3)
SliceLast3(s) == SubSeq(s, IF Len(s) > 3 THEN Len(s) - 2 ELSE 1, Len(s))

\* `CP${machine.productCode.slice(-3)}` and `SP${...}`
ControlPanelCode(code) == <<"C", "P">> \o SliceLast3(code)

SafetyPanelCode(code) == <<"S", "P">> \o SliceLast3(code)

\* the tables and identity counters the seed handler works on, with
\* whether a statement has thrown and how many machines it found stored
Store ==
    [users |-> users, machines |-> machines, panels |-> panels,
     nextUserId |-> nextUserId, nextMachineId |-> nextMachineId,
     nextPanelId |-> nextPanelId, failed |-> FALSE, skipped |-> 0]

\* `if (!exists) await storage.createUser(...)`: the insert throws when
\* the email is taken
seedUser(st, body) ==
    IF st.failed THEN st
    ELSE IF \E u \in st.users : u.username = body.username THEN st
    ELSE IF \E u \in st.users : u.email = body.email
    THEN [st EXCEPT !.failed = TRUE, !.nextUserId = @ + 1]
    ELSE [st EXCEPT !.users = @ \cup {UserRow(st.nextUserId, body)},
                    !.nextUserId = @ + 1]

\* `await storage.createPanel(panel)`: the insert throws when the panel
\* code is taken
seedPanel(st, code, parent) ==
    IF st.failed THEN st
    ELSE IF \E p \in st.panels : p.panelCode = code
    THEN [st EXCEPT !.failed = TRUE, !.nextPanelId = @ + 1]
    ELSE [st EXCEPT !.panels = @ \cup {[id |-> st.nextPanelId,
                                         panelCode |-> code,
                                         parentMachineId |-> parent]},
                    !.nextPanelId = @ + 1]

\* a turn of the machines loop without the look at the stored machines:
\* the insert throws when the product code is taken
seedMachineUnchecked(st, code) ==
    IF st.failed THEN st
    ELSE IF \E m \in st.machines : m.productCode = code
    THEN [st EXCEPT !.failed = TRUE, !.nextMachineId = @ + 1]
    ELSE LET created == [st EXCEPT !.machines = @ \cup
                                       {[id |-> st.nextMachineId,
                                         productCode |-> code]},
                                   !.nextMachineId = @ + 1]
         IN  seedPanel(seedPanel(created, ControlPanelCode(code),
                                 st.nextMachineId),
                       SafetyPanelCode(code), st.nextMachineId)

\* one turn of `for (const machine of machines)`: a machine whose product
\* code is stored is left alone, else it is created with its two panels
seedMachine(st, code) ==
    IF st.failed THEN st
    ELSE IF \E m \in st.machines : m.productCode = code
    THEN [st EXCEPT !.skipped = @ + 1]
    ELSE LET created == [st EXCEPT !.machines = @ \cup
                                       {[id |-> st.nextMachineId,
                                         productCode |-> code]},
                                   !.nextMachineId = @ + 1]
         IN  seedPanel(seedPanel(created, ControlPanelCode(code),
                                 st.nextMachineId),
                       SafetyPanelCode(code), st.nextMachineId)

\* the statements of the seed handler, in their order
seed(st) ==
    seedMachine(
        seedMachine(
            seedMachine(seedUser(seedUser(st, SeedAdmin), SeedTech),
                        SeedCodes[1]),
            SeedCodes[2]),
        SeedCodes[3])

\* POST /api/seed, which no middleware guards: 200, or the catch block's
\* 500 with what was inserted before the statement that threw
Seed(r) ==
    LET out == seed(Store)
    IN  /\ req[r].pc = "idle"
        /\ nextUserId <= MaxSeedUserId
        /\ nextMachineId <= MaxSeedMachineId
        /\ users' = out.users
        /\ machines' = out.machines
        /\ panels' = out.panels
        /\ nextUserId' = out.nextUserId
        /\ nextMachineId' = out.nextMachineId
        /\ nextPanelId' = out.nextPanelId
        /\ req' = [req EXCEPT ![r] =
              [Responded(Started("POST /api/seed", 0),
                         IF out.failed THEN 500 ELSE 200)
                   EXCEPT !.skipped = out.skipped,
                          !.message = IF out.failed THEN "Server error"
                                      ELSE "Seed data created successfully"]]
        /\ UNCHANGED <<orders, serials, nextOrderId, client>>

(* --------------- a client that starts without a token ------------------ *)

\* a deployment whose owner has registered as the Admin, under a password
\* that nobody else knows; the tables are empty otherwise
InitInstalled ==
    /\ client = AuthService(None)
    /\ machines = {}
    /\ panels = {}
    /\ orders = {}
    /\ serials = <<>>
    /\ nextMachineId = 1
    /\ nextPanelId = 1
    /\ nextOrderId = 1
    /\ users = {UserRow(1, [username |-> "admin",
                            email |-> "admin@company.com",
                            password |-> "known to the owner only",
                            role |-> "Admin"])}
    /\ nextUserId = 2
    /\ req = [r \in Requests |-> IdleReq]

\* the passwords the client can type: one it makes up, and the password
\* that the source of the seed route gives to its admin
ClientPasswords == {"chosen", "admin123"}

\* the bodies the client posts to /api/auth/register
ClientUserBodies ==
    { [username |-> "tech", email |-> "tech@company.com",
       password |-> "chosen", role |-> "Admin"],
      [username |-> "admin", email |-> "tech@company.com",
       password |-> "chosen", role |-> "Admin"] }

\* the bodies the client posts to /api/auth/login
ClientLoginBodies == { b \in LoginBodies : b.password \in ClientPasswords }

\* the tokens that POST /api/auth/login signs for a body of the client
ClientTokens ==
    { SignedToken(u.id) :
          u \in { x \in users :
                      \E b \in ClientLoginBodies :
                          /\ b.username = x.username
                          /\ Compare(b.password, x.password) } }

\* what the client can send as its Authorization header
ClientCredentials == {NoToken, BadToken} \cup ClientTokens

\* every request is one of the client; it calls the seed route while no
\* machine id has been drawn
NextAnonymous ==
    \/ \E r \in ApiRequests, body \in ClientUserBodies : Register(r, body)
    \/ \E r \in ApiRequests, body \in ClientLoginBodies : Login(r, body)
    \/ \E r \in ApiRequests : nextMachineId = 1 /\ Seed(r)
    \/ \E r \in ApiRequests, cred \in ClientCredentials : AdminRequest(r, cred)
    \/ \E r \in ApiRequests : GetMachine(r)
    \/ \E r \in ApiRequests : MachineSerial(r)
    \/ \E r \in ApiRequests : GetPanels(r)
    \/ \E r \in ApiRequests : PanelSerial(r)
    \/ \E r \in ApiRequests : InsertSerials(r)
    \/ \E r \in ApiRequests : EndRequest(r)

SpecAnonymous == InitInstalled /\ [][NextAnonymous]_vars

(* --------------------- calls of the seed route, in turn ---------------- *)

\* users that are registered before the seed is called: one that takes
\* the username admin with the role Tech, one that takes the email of the
\* seed's admin under another username
EarlierUserBodies ==
    { [username |-> "admin", email |-> "admin@company.com",
       password |-> "chosen", role |-> "Tech"],
      [username |-> "tech", email |-> "admin@company.com",
       password |-> "chosen", role |-> "Tech"] }

\* codes of machines and panels that are created before the seed is
\* called: codes of the seed itself
EarlierMachineCodes == { SeedCodes[1] }

EarlierPanelCodes == { ControlPanelCode(SeedCodes[1]), SafetyPanelCode(SeedCodes[2]) }

\* the seed route is called again and again, on a database that may hold
\* users, machines and panels already
NextSeed ==
    \/ \E r \in ApiRequests, body \in EarlierUserBodies : Register(r, body)
    \/ \E r \in ApiRequests : Seed(r)
    \/ \E r \in ApiRequests : EndRequest(r)
    \/ \E code \in EarlierMachineCodes : CreateMachine(code)
    \/ \E code \in EarlierPanelCodes, parent \in 1..MaxMachines :
           CreatePanel(code, parent)

SpecSeed == Init /\ [][NextSeed]_vars

(* ---------------------- the AuthService of the browser ----------------- *)

\* tokens the server signs, as the browser sees them
Tokens == {"jwt1", "jwt2"}

\* user objects the server answers with
UserObjects == { <<[role |-> "Admin"]>>, <<[role |-> "Tech"]>> }

Calls == 1..MaxCalls

\* the rows, the counters and the request slots of the server
server == <<machines, panels, orders, serials, users,
            nextMachineId, nextPanelId, nextOrderId, nextUserId, req>>

\* isAuthenticated(): !!this.token
isAuthenticated == client.token # None

\* isAdmin(): this.user?.role === 'Admin'
isAdmin == client.user # None /\ client.user[1].role = "Admin"

\* the assignments of logout(), made to an AuthService
loggedOut(a) == [a EXCEPT !.token = None, !.user = None, !.stored = None]

\* login(): the call reaches its await of fetch
LoginStart(c) ==
    /\ client.calls[c].pc = "idle"
    /\ client' = [client EXCEPT !.calls[c].pc = "loginFetch"]
    /\ UNCHANGED server

\* login(): fetch resolves, response.ok or not, and the call awaits
\* response.json() with the body the server sent
LoginFetched(c, ok, token, user) ==
    /\ client.calls[c].pc = "loginFetch"
    /\ client' = [client EXCEPT !.calls[c] =
                      IF ok
                      THEN [pc |-> "loginJson", token |-> token, user |-> user]
                      ELSE [IdleCall EXCEPT !.pc = "loginError"]]
    /\ UNCHANGED server

\* login(): the response was not ok, the call throws
LoginFailed(c) ==
    /\ client.calls[c].pc = "loginError"
    /\ client' = [client EXCEPT !.calls[c] = IdleCall]
    /\ UNCHANGED server

\* login(): the body is parsed, the call stores token and user and
\* writes the localStorage entry
LoginDone(c) ==
    /\ client.calls[c].pc = "loginJson"
    /\ client' = [client EXCEPT !.token = client.calls[c].token,
                                !.user = client.calls[c].user,
                                !.stored = client.calls[c].token,
                                !.calls[c] = IdleCall]
    /\ UNCHANGED server

\* logout(), called by the page
Logout ==
    /\ client' = loggedOut(client)
    /\ UNCHANGED server

\* getCurrentUser(): with no token it returns null at once, with a token
\* the call reaches its await of fetch
GetCurrentUserStart(c) ==
    /\ client.calls[c].pc = "idle"
    /\ client.token # None
    /\ client' = [client EXCEPT !.calls[c].pc = "meFetch"]
    /\ UNCHANGED server

\* getCurrentUser(): fetch resolves with a response that is ok, and the
\* call awaits response.json()
GetCurrentUserFetched(c, user) ==
    /\ client.calls[c].pc = "meFetch"
    /\ client' = [client EXCEPT !.calls[c] =
                      [pc |-> "meJson", token |-> None, user |-> user]]
    /\ UNCHANGED server

\* getCurrentUser(): the response is not ok, or fetch or response.json()
\* throws: the call logs out and returns null
GetCurrentUserFailed(c) ==
    /\ client.calls[c].pc \in {"meFetch", "meJson"}
    /\ client' = [loggedOut(client) EXCEPT !.calls[c] = IdleCall]
    /\ UNCHANGED server

\* getCurrentUser(): the body is parsed, the call caches the user
GetCurrentUserDone(c) ==
    /\ client.calls[c].pc = "meJson"
    /\ client' = [client EXCEPT !.user = client.calls[c].user,
                                !.calls[c] = IdleCall]
    /\ UNCHANGED server

\* the default query function gets a 401: it removes the localStorage
\* entry and asks the window to reload
QueryUnauthorized ==
    /\ ~client.reloading
    /\ client' = [client EXCEPT !.stored = None, !.reloading = TRUE]
    /\ UNCHANGED server

\* the window reloads: the calls of the old page are gone and a new
\* AuthService is constructed over the localStorage of the moment
Reload ==
    /\ client.reloading
    /\ client' = AuthService(client.stored)
    /\ UNCHANGED server

\* a page opens over a localStorage that holds a token of an earlier visit,
\* or none
InitClient ==
    /\ machines = {}
    /\ panels = {}
    /\ orders = {}
    /\ serials = <<>>
    /\ nextMachineId = 1
    /\ nextPanelId = 1
    /\ nextOrderId = 1
    /\ users = {}
    /\ nextUserId = 1
    /\ req = [r \in Requests |-> IdleReq]
    /\ \E stored \in {None} \cup { <<t>> : t \in Tokens } :
           client = AuthService(stored)

NextClient ==
    \/ \E c \in Calls : LoginStart(c)
    \/ \E c \in Calls, ok \in BOOLEAN, t \in Tokens, u \in UserObjects :
           LoginFetched(c, ok, <<t>>, u)
    \/ \E c \in Calls : LoginFailed(c)
    \/ \E c \in Calls : LoginDone(c)
    \/ Logout
    \/ \E c \in Calls : GetCurrentUserStart(c)
    \/ \E c \in Calls, u \in UserObjects : GetCurrentUserFetched(c, u)
    \/ \E c \in Calls : GetCurrentUserFailed(c)
    \/ \E c \in Calls : GetCurrentUserDone(c)
    \/ QueryUnauthorized
    \/ Reload

SpecClient == InitClient /\ [][NextClient]_vars

(* ------------------------ vocabulary of the claims --------------------- *)

\* the product code a serial entry was minted for: its machine's
\* productCode or its panel's panelCode
CodeOfEntry(e) ==
    IF e.machineId # Null
    THEN (CHOOSE m \in machines : m.id = e.machineId).productCode
    ELSE (CHOOSE p \in panels : p.id = e.panelId).panelCode

\* what follows the product code in the serial number of an entry
SuffixText(e) ==
    SubSeq(e.serialNumber, Len(CodeOfEntry(e)) + 1, Len(e.serialNumber))

\* the numeric suffix of an entry
SuffixOf(e) == ParseInt(SuffixText(e))

StartsWith(s, prefix) ==
    Len(s) >= Len(prefix) /\ SubSeq(s, 1, Len(prefix)) = prefix

AllDigits(s) == \A k \in 1..Len(s) : IsDigit(s[k])

\* the largest number of a non-empty set of numbers
MaxOf(S) == CHOOSE n \in S : \A m \in S : m <= n

\* the serial rows that carry an order id
RowsOfOrder(id) == { k \in 1..Len(serials) : serials[k].orderId = id }

\* the entry a step of request r has just pushed onto serialsToCreate
Pushed(r) ==
    Len(req'[r].serialsToCreate) = Len(req[r].serialsToCreate) + 1

LastPushed(r) == req'[r].serialsToCreate[Len(req'[r].serialsToCreate)]

\* the units the lines of a machines list order of one machine
RECURSIVE UnitsOrdered(_, _)
UnitsOrdered(lines, machineId) ==
    IF Len(lines) = 0 THEN 0
    ELSE (IF lines[1].machineId = machineId THEN lines[1].quantity ELSE 0)
         + UnitsOrdered(Tail(lines), machineId)

\* the request is over and had inserted its order row
Created(r) == req[r].pc = "done" /\ req[r].orderId # 0

(* -------------------------------- C1 ----------------------------------- *)

\* C1: in every reachable state, whatever the interleaving of the order
\* creations, no two rows of the serials table carry the same serialNumber.
C1_SerialNumbersUnique ==
    \A j, k \in 1..Len(serials) :
        j # k => serials[j].serialNumber # serials[k].serialNumber

\* two creations computed the same serial number; one batch is stored and
\* the other was rejected
C1_Witness ==
    \E r1, r2 \in Requests :
        /\ r1 # r2
        /\ Created(r1) /\ req[r1].status = 201
        /\ Created(r2) /\ req[r2].status = 500
        /\ \E j \in 1..Len(req[r1].serialsToCreate),
              k \in 1..Len(req[r2].serialsToCreate) :
               /\ req[r1].serialsToCreate[j].serialNumber
                    = req[r2].serialsToCreate[k].serialNumber
               /\ req[r1].serialsToCreate[j] \in SerialRows

(* -------------------------------- C2 ----------------------------------- *)

\* C2: when two creations each computed one serial for the same machine,
\* and the table holds no serial of that machine from any other order,
\* both creations answer 201 and the serials of the machine are its code
\* followed by 001 and by 002.
C2_BothConcurrentOrdersSucceed ==
    \A r1, r2 \in Requests :
        ( /\ r1 # r2
          /\ Created(r1) /\ Created(r2)
          /\ Len(req[r1].serialsToCreate) = 1
          /\ Len(req[r2].serialsToCreate) = 1
          /\ req[r1].serialsToCreate[1].machineId # Null
          /\ req[r1].serialsToCreate[1].machineId
               = req[r2].serialsToCreate[1].machineId
          /\ \A s \in SerialRows :
                 s.machineId = req[r1].serialsToCreate[1].machineId
                     => s.orderId \in {req[r1].orderId, req[r2].orderId} )
        => LET id == req[r1].serialsToCreate[1].machineId
               code == CodeOfEntry(req[r1].serialsToCreate[1])
           IN  /\ req[r1].status = 201
               /\ req[r2].status = 201
               /\ { s.serialNumber : s \in { t \in SerialRows : t.machineId = id } }
                    = { code \o <<"0", "0", "1">>, code \o <<"0", "0", "2">> }

(* -------------------------------- C3 ----------------------------------- *)

\* C3: within one creation the serial numbers computed for one machine or
\* one panel are pairwise distinct and strictly increasing in the order in
\* which they are computed.
C3_IncreasingWithinOneCall ==
    \A r \in Requests :
        \A j, k \in 1..Len(req[r].serialsToCreate) :
            LET a == req[r].serialsToCreate[j]
                b == req[r].serialsToCreate[k]
            IN  (j < k /\ a.machineId = b.machineId /\ a.panelId = b.panelId)
                    => SuffixOf(a) < SuffixOf(b)

(* -------------------------------- C4 ----------------------------------- *)

\* C4: when the table already holds serials of a product code, the next
\* serial computed for that code has the largest numeric suffix among them
\* plus one.
C4_NextIsMaxPlusOne ==
    [][ \A r \in Requests :
          Pushed(r) =>
              LET e == LastPushed(r)
                  prior == { s \in SerialRows : CodeOfEntry(s) = CodeOfEntry(e) }
              IN  prior # {} =>
                      SuffixOf(e) = MaxOf({ SuffixOf(s) : s \in prior }) + 1 ]_vars

(* -------------------------------- C5 ----------------------------------- *)

C6_FanOut ==
    \A r \in Requests :
        ( /\ Created(r)
          /\ \E o \in orders : o.id = req[r].orderId
          /\ req[r].skipped = 0
          /\ \A k \in 1..Len(req[r].machines) :
                 /\ req[r].machines[k].quantity >= 1
                 /\ \A p \in panels :
                        p.parentMachineId = req[r].machines[k].machineId
                            => \E j \in 1..Len(req[r].serialsToCreate) :
                                   req[r].serialsToCreate[j].panelId = p.id )
        => \A k \in 1..Len(req[r].machines) :
               LET id == req[r].machines[k].machineId
                   units == UnitsOrdered(req[r].machines, id)
               IN  /\ Cardinality({ n \in RowsOfOrder(req[r].orderId) :
                                      serials[n].machineId = id }) = units
                   /\ \A p \in panels :
                          p.parentMachineId = id =>
                              Cardinality({ n \in RowsOfOrder(req[r].orderId) :
                                              serials[n].panelId = p.id }) = units

(* -------------------------------- C7 ----------------------------------- *)

\* C7: a creation that fails after it inserted its order row leaves
\* neither the order row nor any serial of the order behind.
C7_AllOrNothing ==
    \A r \in Requests :
        (Created(r) /\ req[r].status = 500)
            => /\ \A o \in orders : o.id # req[r].orderId
               /\ RowsOfOrder(req[r].orderId) = {}

(* -------------------------------- C8 ----------------------------------- *)

\* C8: every serial number a creation computes is the product code
\* followed by the decimal digits of the next number, padded with zeros on
\* the left to three digits and never cut: the digits read back as the
\* number, there are at least three of them, and more than three only
\* without a leading zero; with no prior serial found the number is 1 and
\* the serial number is the code followed by 001.
C8_SerialFormat ==
    [][ \A r \in Requests :
          Pushed(r) =>
              LET e == LastPushed(r)
                  code == CodeOfEntry(e)
                  found == getLastSerialByPrefix(code)
                  digits == SuffixText(e)
              IN  /\ StartsWith(e.serialNumber, code)
                  /\ AllDigits(digits)
                  /\ Len(digits) >= 3
                  /\ Len(digits) > 3 => digits[1] # "0"
                  /\ ParseInt(digits) = NextNumber(found)
                  /\ found = None =>
                         e.serialNumber = code \o <<"0", "0", "1">> ]_vars

\* a serial padded to 001 and a serial whose number needs four digits are
\* both stored
C8_Witness ==
    /\ \E s \in SerialRows : SuffixText(s) = <<"0", "0", "1">>
    /\ \E s \in SerialRows : Len(SuffixText(s)) = 4 /\ SuffixOf(s) > 999

(* -------------------------------- C9 ----------------------------------- *)

\* C9: no order row is created for a machines list that is empty or has a
\* line of quantity below 1, and no such creation answers 201.
C9_EmptyOrZeroRejected ==
    /\ \A o \in orders :
           /\ Len(o.machines) >= 1
           /\ \A k \in 1..Len(o.machines) : o.machines[k].quantity >= 1
    /\ \A r \in Requests :
           req[r].orderId # 0 =>
               /\ Len(req[r].machines) >= 1
               /\ \A k \in 1..Len(req[r].machines) :
                      req[r].machines[k].quantity >= 1

(* -------------------------------- C10 ---------------------------------- *)

\* C10 as stated: a creation one of whose lines names a machine that does
\* not exist fails and leaves no order row and no serial row.
C10_UnknownMachineFails ==
    \A r \in Requests :
        (req[r].pc = "done" /\ req[r].skipped > 0)
            => /\ req[r].status # 201
               /\ \A o \in orders : o.id # req[r].orderId
               /\ RowsOfOrder(req[r].orderId) = {}

\* C10 as amended: a line that names a machine that does not exist is
\* skipped after the order row has been inserted; a creation all of whose
\* lines are skipped computes no serial, stores none and answers 201.
C10_UnknownMachineSkipped ==
    \A r \in Requests :
        /\ req[r].skipped > 0 => req[r].orderId # 0
        /\ ( /\ req[r].pc = "done"
             /\ req[r].skipped > 0
             /\ req[r].skipped = Len(req[r].machines) )
           => /\ req[r].status = 201
              /\ req[r].serialsToCreate = <<>>
              /\ RowsOfOrder(req[r].orderId) = {}

\* a creation whose only line named a missing machine has answered 201
\* and its order row is stored
C10_Witness ==
    \E r \in Requests :
        /\ req[r].pc = "done"
        /\ req[r].skipped = Len(req[r].machines)
        /\ req[r].skipped > 0
        /\ req[r].status = 201
        /\ \E o \in orders : o.id = req[r].orderId

(* -------------------------------- C11 ---------------------------------- *)

\* a serial number of the batch is already the serial number of a stored row
CollidesWithStored(batch) ==
    \E k \in 1..Len(batch) :
        \E s \in SerialRows : s.serialNumber = batch[k].serialNumber

\* C11: the batch insert of a creation that collides with a stored serial
\* number does not end the request: the handler goes back to the reads and
\* tries again, and the failure is not answered at the first collision.
C11_CollisionIsRetried ==
    [][ \A r \in Requests :
          ( /\ req[r].pc = "insert"
            /\ CollidesWithStored(req[r].serialsToCreate)
            /\ req'[r] # req[r] )
          => req'[r].pc # "done" ]_vars

(* -------------------------------- C12 ---------------------------------- *)

\* the request of the slot is over, was for this route, and the middleware
\* had let it through
Handled(r, route) ==
    /\ req[r].pc = "done"
    /\ req[r].route = route
    /\ req[r].status \notin {401, 403}

\* C12: a DELETE /api/orders/:id that reaches its handler succeeds, and
\* afterwards neither the order row nor any serial row of the order is
\* stored, also when the order owned serials.
C12_DeleteOrderCascades ==
    \A r \in ApiRequests :
        Handled(r, "DELETE /api/orders/:id")
            => /\ req[r].status = 204
               /\ \A o \in orders : o.id # req[r].id
               /\ RowsOfOrder(req[r].id) = {}

(* -------------------------------- C13 ---------------------------------- *)

\* a serial row or entry is tagged with a machine or with a panel, not
\* with both and not with neither
TaggedWithOne(e) == (e.machineId # Null) # (e.panelId # Null)

\* C13: in every reachable state every stored serial, and every entry a
\* creation has computed, has exactly one of machineId and panelId set.
C13_ExactlyOneTag ==
    /\ \A s \in SerialRows : TaggedWithOne(s)
    /\ \A r \in Requests :
           \A k \in 1..Len(req[r].serialsToCreate) :
               TaggedWithOne(req[r].serialsToCreate[k])

\* a serial of a machine and a serial of a panel are both stored
C13_Witness ==
    /\ \E s \in SerialRows : s.machineId # Null /\ s.panelId = Null
    /\ \E s \in SerialRows : s.panelId # Null /\ s.machineId = Null

(* -------------------------------- C14 ---------------------------------- *)

\* the machine row of this id carries another productCode after the step
CodeChanged(id) ==
    \E m \in machines : \E n \in machines' :
        m.id = id /\ n.id = id /\ n.productCode # m.productCode

\* C14 as stated: the productCode of a machine never changes once the
\* machine is created, whatever requests follow.
C14_ProductCodeImmutable ==
    [][ \A id \in 1..MaxMachines : ~CodeChanged(id) ]_vars

\* C14 as amended: the productCode of a machine changes only in a PUT
\* /api/machines/:id for that machine that passed the middleware and
\* answers 200, and only to a code that no other machine carries.
C14_ProductCodeChangesOnlyByPut ==
    [][ \A id \in 1..MaxMachines :
          CodeChanged(id) =>
              /\ \E r \in ApiRequests :
                     /\ req[r].pc = "idle"
                     /\ req'[r].pc = "done"
                     /\ req'[r].route = "PUT /api/machines/:id"
                     /\ req'[r].id = id
                     /\ req'[r].status = 200
              /\ \A m, n \in machines' :
                     m.id # n.id => m.productCode # n.productCode ]_vars

\* a PUT has been answered 200 for a machine of which a serial is stored
\* that no longer starts with the productCode of the machine
C14_Witness ==
    \E r \in ApiRequests :
        /\ Handled(r, "PUT /api/machines/:id")
        /\ req[r].status = 200
        /\ \E m \in machines :
               /\ m.id = req[r].id
               /\ \E s \in SerialRows :
                      /\ s.machineId = m.id
                      /\ ~StartsWith(s.serialNumber, m.productCode)

(* -------------------------------- C15 ---------------------------------- *)

\* C15: in every reachable state product codes are unique over machines
\* and panels together: no two machines share a productCode, no two panels
\* share a panelCode, and no machine's productCode is a panel's panelCode.
C15_CodesUniqueAcrossCatalog ==
    /\ \A m, n \in machines : m.id # n.id => m.productCode # n.productCode
    /\ \A p, q \in panels : p.id # q.id => p.panelCode # q.panelCode
    /\ \A m \in machines : \A p \in panels : m.productCode # p.panelCode

(* -------------------------------- C16 ---------------------------------- *)

\* C16: with one request served at a time, a serial number that a
\* creation computes, for whatever product, is not the serial number of a
\* row already stored, for whatever product.
C16_ComputedSerialIsFresh ==
    [][ \A r \in ApiRequests :
          Pushed(r) =>
              \A s \in SerialRows :
                  s.serialNumber # LastPushed(r).serialNumber ]_vars

(* -------------------------------- C17 ---------------------------------- *)

\* the credentials are a token signed for a stored user
Authenticated(cred) ==
    cred.kind = "signed" /\ \E u \in users : u.id = cred.userId

\* the credentials are a token signed for a stored user of role Admin
AdminCaller(cred) ==
    cred.kind = "signed"
        /\ \E u \in users : u.id = cred.userId /\ u.role = "Admin"

\* the request that starts in the slot is refused and nothing is stored:
\* with 403 for an authenticated caller, with 401 or 403 for any other
RefusedUnchanged(r, cred) ==
    /\ req'[r].pc = "done"
    /\ IF Authenticated(cred)
       THEN req'[r].status = 403
       ELSE req'[r].status \in {401, 403}
    /\ UNCHANGED <<machines, panels, orders, serials, users,
                   nextMachineId, nextPanelId, nextOrderId, nextUserId, client>>

\* C17: a create, update or delete request on machines, panels or orders
\* whose caller is authenticated but not an Admin is answered 403; one
\* without a valid token is answered 401 or 403; either way no table and
\* no identity counter changes.  (Read from right to left: a step that is
\* anything else is not such a request of a caller who is not an Admin.)
C17_NonAdminRefused ==
    [][ \A r \in ApiRequests :
          (req[r].pc = "idle" /\ req'[r].pc # "idle")
          => \A cred \in Credentials :
                 (~AdminCaller(cred) /\ ~RefusedUnchanged(r, cred))
                 => ~AdminRequest(r, cred) ]_vars

\* a Tech user has asked for the delete of a machine while machines are
\* stored, and was refused by requireAdmin
C17_Witness ==
    \E r \in ApiRequests :
        /\ req[r].pc = "done"
        /\ req[r].route = "DELETE /api/machines/:id"
        /\ req[r].status = 403
        /\ req[r].message = "Admin access required"
        /\ machines # {}

(* -------------------------------- C18 ---------------------------------- *)

\* the step is the update handler of request r, for this order and body
UpdateStep(r, id, body) ==
    PatchOrder(r, id, body) \/ PutOrder(r, id, body)

\* C18: whatever the statuses of an order are, an update that reaches the
\* handler with a progressStatus taken from Pending, In Progress,
\* Completed, Confirmed and a paymentStatus taken from Pending, Partial,
\* Paid, each present or not independently of the other, is answered 200
\* and the order row then carries exactly the statuses of the body; an
\* update with a status outside its enumeration is answered 400 and no
\* order row changes.
C18_AnyStatusToAnyStatus ==
    [][ \A r \in ApiRequests :
          ( /\ req[r].pc = "idle"
            /\ req'[r].pc = "done"
            /\ req'[r].route \in {"PATCH /api/orders/:id", "PUT /api/orders/:id"}
            /\ (req'[r].status \notin {401, 403} \/ orders' # orders) )
          => \A body \in OrderPatches :
                 UpdateStep(r, req'[r].id, body) =>
                     IF partialOrderSchema(body)
                     THEN /\ req'[r].status = 200
                          /\ Cardinality(orders') = Cardinality(orders)
                          /\ \A o \in orders : \E n \in orders' :
                                 /\ n.id = o.id
                                 /\ n.machines = o.machines
                                 /\ n.progressStatus =
                                      IF o.id = req'[r].id
                                         /\ Has(body, "progressStatus")
                                      THEN body.progressStatus
                                      ELSE o.progressStatus
                                 /\ n.paymentStatus =
                                      IF o.id = req'[r].id
                                         /\ Has(body, "paymentStatus")
                                      THEN body.paymentStatus
                                      ELSE o.paymentStatus
                     ELSE /\ req'[r].status = 400
                          /\ orders' = orders ]_vars

\* an update has been answered 200 for an order whose progress is Pending
\* and whose payment is Paid, while another order is Confirmed
C18_Witness ==
    \E r \in ApiRequests :
        /\ Handled(r, "PATCH /api/orders/:id")
        /\ req[r].status = 200
        /\ \E o \in orders :
               /\ o.id = req[r].id
               /\ o.progressStatus = "Pending"
               /\ o.paymentStatus = "Paid"
        /\ \E o \in orders :
               /\ o.id # req[r].id
               /\ o.progressStatus = "Confirmed"

(* -------------------------------- C19 ---------------------------------- *)

\* C19: the serials table changes in one way only: the batch insert of a
\* POST /api/orders appends the rows the request computed.  No step of any
\* route changes or removes a row that is stored.
C19_SerialsOnlyAppendedByCreation ==
    [][ serials' # serials =>
          \E r \in ApiRequests :
              /\ req[r].pc = "insert"
              /\ req[r].route = "POST /api/orders"
              /\ req'[r].pc = "done"
              /\ req'[r].status = 201
              /\ Len(req[r].serialsToCreate) > 0
              /\ serials' = serials \o req[r].serialsToCreate ]_vars

\* serials are stored, and a delete or an update of the order that owns
\* them has been handled since
C19_Witness ==
    \E r \in ApiRequests :
        /\ \/ Handled(r, "DELETE /api/orders/:id")
           \/ Handled(r, "PATCH /api/orders/:id")
        /\ \E s \in SerialRows : s.orderId = req[r].id

(* -------------------------------- C20 ---------------------------------- *)

\* the request that starts in the slot is answered 400 'Validation error'
\* at once, with no order id, no computed serial and nothing stored
RejectedUnchanged(r) ==
    /\ req'[r].pc = "done"
    /\ req'[r].status = 400
    /\ req'[r].message = "Validation error"
    /\ req'[r].orderId = 0
    /\ req'[r].serialsToCreate = <<>>
    /\ UNCHANGED <<machines, panels, orders, serials, users,
                   nextMachineId, nextPanelId, nextOrderId, nextUserId, client>>

\* C20: a POST /api/orders whose body does not parse with
\* insertOrderSchema is answered 400 'Validation error' in its first step:
\* it inserts no order row and draws no order id, it has read nothing for
\* an allocation and computed no serial, and it stores no serial row.
\* (Read from right to left: a first step that is anything else is not the
\* step of a body that does not parse.)
C20_InvalidBodyRejectedFirst ==
    [][ \A r \in Requests :
          (req[r].pc = "idle" /\ req'[r].pc # "idle" /\ ~RejectedUnchanged(r))
          => \A body \in OrderBodies :
                 ~insertOrderSchema(body) => ~PostOrder(r, body) ]_vars

\* a creation has been answered 400 while orders and serials are stored
C20_Witness ==
    \E r \in Requests :
        /\ req[r].pc = "done"
        /\ req[r].route = "POST /api/orders"
        /\ req[r].status = 400
        /\ req[r].message = "Validation error"
        /\ orders # {}
        /\ serials # <<>>

(* -------------------------------- C21 ---------------------------------- *)

\* the line request r is about to look up names a machine that is not stored
AtUnknownLine(r) ==
    /\ req[r].pc = "getMachine"
    /\ getMachine(req[r].machines[req[r].line].machineId) = None

InLoops(r) ==
    req[r].pc \in {"getMachine", "machineSerial", "getPanels",
                   "panelSerial", "insert"}

\* C22: a creation inserts its order row first: it draws its order id in
\* its first step, together with the row, before it has computed a serial.
\* While it reads and computes, no serial row of its order is stored, so
\* none of its own serials is visible to a getLastSerialByPrefix of the
\* same request.  The serials table changes only in the step that ends a
\* request: one INSERT of the whole batch, all of it under the order id of
\* the request, issued after the loops and only for a batch that is not
\* empty.
C22_OrderFirstThenOneBatch ==
    [][ /\ \A r \in Requests :
               /\ InLoops(r) =>
                      /\ req[r].orderId # 0
                      /\ req[r].orderId < nextOrderId
                      /\ RowsOfOrder(req[r].orderId) = {}
               /\ req[r].pc = "insert" => Len(req[r].serialsToCreate) > 0
               /\ req'[r].orderId # req[r].orderId =>
                      \/ req'[r].pc = "idle"
                      \/ /\ req[r].pc = "idle"
                         /\ req'[r].serialsToCreate = <<>>
                         /\ req'[r].orderId = nextOrderId
                         /\ \E o \in orders' \ orders : o.id = req'[r].orderId
               /\ Pushed(r) => serials' = serials
        /\ serials' # serials =>
               \E r \in Requests :
                   /\ req[r].pc = "insert"
                   /\ req'[r].pc = "done"
                   /\ serials' = serials \o req[r].serialsToCreate
                   /\ \A k \in 1..Len(req[r].serialsToCreate) :
                          req[r].serialsToCreate[k].orderId = req[r].orderId ]_vars

\* a creation that computed serials in both loops, two of them or more,
\* has stored them in its one batch and answered 201
C22_Witness ==
    \E r \in Requests :
        /\ Created(r) /\ req[r].status = 201
        /\ \E j, k \in 1..Len(req[r].serialsToCreate) :
               /\ req[r].serialsToCreate[j].machineId # Null
               /\ req[r].serialsToCreate[k].panelId # Null
        /\ \A k \in 1..Len(req[r].serialsToCreate) :
               req[r].serialsToCreate[k] \in SerialRows

(* -------------------------------- C23 ---------------------------------- *)

\* C23: when a creation has been answered 201, the serial rows that
\* storage.getSerialsByOrder returns for its order id, which is what GET
\* /api/orders/:orderId/serials sends, are exactly the serials the request
\* computed, each under the id of the created order; the order is never
\* left with a part of the batch: a creation that was not answered 201
\* has none of its serials stored.
C23_CreatedMeansWholeBatchStored ==
    \A r \in Requests :
        Created(r) =>
            /\ \A k \in 1..Len(req[r].serialsToCreate) :
                   req[r].serialsToCreate[k].orderId = req[r].orderId
            /\ IF req[r].status = 201
               THEN getSerialsByOrder(req[r].orderId) = req[r].serialsToCreate
               ELSE getSerialsByOrder(req[r].orderId) = <<>>

\* two creations have been answered 201 and each finds its own serials,
\* one of them a serial of a machine and a serial of a panel
C23_Witness ==
    \E r1, r2 \in Requests :
        /\ r1 # r2
        /\ Created(r1) /\ req[r1].status = 201
        /\ Created(r2) /\ req[r2].status = 201
        /\ Len(req[r1].serialsToCreate) >= 2
        /\ Len(req[r2].serialsToCreate) >= 1
        /\ getSerialsByOrder(req[r1].orderId) = req[r1].serialsToCreate
        /\ getSerialsByOrder(req[r2].orderId) = req[r2].serialsToCreate

(* -------------------------------- C24 ---------------------------------- *)

\* C24: with one request served at a time, a creation with a body that
\* parses and orders one unit of a machine that exists is answered 201 and
\* its serials are stored, however many orders were created for the same
\* machine before.  (Stated for a catalog in which no panel carries the
\* code of a machine, so that a failure is not the collision of C15.)
C24_SequentialOrdersSucceed ==
    \A r \in ApiRequests :
        ( /\ Handled(r, "POST /api/orders")
          /\ req[r].orderId # 0
          /\ req[r].skipped = 0
          /\ \A m \in machines : \A p \in panels : m.productCode # p.panelCode )
        => /\ req[r].status = 201
           /\ Len(req[r].serialsToCreate) >= 1
           /\ getSerialsByOrder(req[r].orderId) = req[r].serialsToCreate

(* -------------------------------- C25 ---------------------------------- *)

\* the step is an update of an order, by PATCH or PUT, answered in slot r
OrderUpdateAnswered(r) ==
    /\ req[r].pc = "idle"
    /\ req'[r].pc = "done"
    /\ req'[r].route \in {"PATCH /api/orders/:id", "PUT /api/orders/:id"}

\* C25: an update of an order by PATCH or PUT, whatever it is answered
\* and whether its body changes a status or replaces the machines list,
\* leaves the serials table as it was: no row is inserted, removed or
\* altered; and it touches no machine and no panel.
C25_OrderUpdateKeepsSerials ==
    [][ \A r \in ApiRequests :
          OrderUpdateAnswered(r) =>
              /\ serials' = serials
              /\ machines' = machines
              /\ panels' = panels ]_vars

\* a PUT has replaced the machines list of an order by the empty list and
\* was answered 200, and a serial of that order is still stored
C25_Witness ==
    \E r \in ApiRequests :
        /\ Handled(r, "PUT /api/orders/:id")
        /\ req[r].status = 200
        /\ \E o \in orders : o.id = req[r].id /\ o.machines = <<>>
        /\ getSerialsByOrder(req[r].id) # <<>>

(* -------------------------------- C26 ---------------------------------- *)

\* the references of the stored serials after the step: the order of each
\* is stored, and so is its machine or its panel
SerialsReferStored ==
    \A s \in { serials'[k] : k \in 1..Len(serials') } :
        /\ \E o \in orders' : o.id = s.orderId
        /\ s.machineId # Null => \E m \in machines' : m.id = s.machineId
        /\ s.panelId # Null => \E p \in panels' : p.id = s.panelId
        /\ s.machineId # Null \/ s.panelId # Null

\* a stored serial refers to the row that a delete request names
SerialRefersTo(route, id) ==
    \E s \in SerialRows :
        \/ route = "DELETE /api/orders/:id" /\ s.orderId = id
        \/ route = "DELETE /api/machines/:id" /\ s.machineId = id
        \/ route = "DELETE /api/panels/:id" /\ s.panelId = id

\* C26: whatever creations, updates and deletes of orders, machines and
\* panels have been served, every stored serial refers to a stored order
\* and to a stored machine or a stored panel; a delete of an order, a
\* machine or a panel that a serial refers to is answered 500 and leaves
\* every table as it was.
C26_SerialReferencesHold ==
    [][ /\ SerialsReferStored
        /\ \A r \in ApiRequests :
               ( /\ req[r].pc = "idle"
                 /\ req'[r].pc = "done"
                 /\ req'[r].status \notin {401, 403}
                 /\ SerialRefersTo(req'[r].route, req'[r].id) )
               => /\ req'[r].status = 500
                  /\ UNCHANGED <<machines, panels, orders, serials>> ]_vars

\* the delete of a machine that a stored serial refers to has been
\* answered 500, and a serial of a panel is stored as well
C26_Witness ==
    \E r \in ApiRequests :
        /\ req[r].pc = "done"
        /\ req[r].status = 500
        /\ SerialRefersTo(req[r].route, req[r].id)
        /\ req[r].route = "DELETE /api/machines/:id"
        /\ \E s \in SerialRows : s.panelId # Null

(* -------------------------------- C27 ---------------------------------- *)

\* C27: whatever requests a client sends that started without a token and
\* knows the password of no user of the installation, no machine, panel,
\* order or serial row comes to exist (none existed), and no login of the
\* client is answered with a token signed for a user of role Admin.
C27_AnonymousClientIsPowerless ==
    /\ machines = {}
    /\ panels = {}
    /\ orders = {}
    /\ serials = <<>>
    /\ \A r \in ApiRequests :
           ( /\ Handled(r, "POST /api/auth/login")
             /\ req[r].status = 200 )
           => \A u \in users : u.id = req[r].id => u.role # "Admin"

(* -------------------------------- C28 ---------------------------------- *)

\* what every call of the seed that is answered 200 leaves behind: users
\* named admin and tech, and a machine of each of the three codes
Seeded ==
    /\ \E u \in users : u.username = "admin"
    /\ \E u \in users : u.username = "tech"
    /\ \A k \in 1..Len(SeedCodes) :
           \E m \in machines : m.productCode = SeedCodes[k]

\* the panels attached to a machine, in the tables after the step
PanelsAfter(m) == { p \in panels' : p.parentMachineId = m.id }

\* C28: POST /api/seed is idempotent.  A call that is answered 200 leaves
\* the seed's users and machines stored, and every call on a database
\* that holds them is answered 200 and changes no user, machine or panel
\* and draws no id: no second admin or tech, no second machine of a seed
\* code, no further panel.  A machine that a call creates has its two
\* panels, Control and Safety, when the call is answered 200.
C28_SeedIdempotent ==
    [][ \A r \in ApiRequests :
          ( /\ req[r].pc = "idle"
            /\ req'[r].pc = "done"
            /\ req'[r].route = "POST /api/seed" )
          => /\ req'[r].status = 200 => Seeded'
             /\ Seeded =>
                    /\ req'[r].status = 200
                    /\ UNCHANGED <<users, machines, panels, nextUserId,
                                   nextMachineId, nextPanelId, client>>
             /\ req'[r].status = 200 =>
                    /\ \A u, v \in users' :
                           u.username = v.username => u.id = v.id
                    /\ \A m, n \in machines' :
                           m.productCode = n.productCode => m.id = n.id
                    /\ \A m \in machines' \ machines :
                           { p.panelCode : p \in PanelsAfter(m) }
                               = { ControlPanelCode(m.productCode),
                                   SafetyPanelCode(m.productCode) } ]_vars

\* a call of the seed has found both users and all three machines stored
\* and was answered 200; there are two users, three machines, and two
\* panels for each machine
C28_Witness ==
    \E r \in ApiRequests :
        /\ req[r].pc = "done"
        /\ req[r].route = "POST /api/seed"
        /\ req[r].status = 200
        /\ req[r].skipped = Len(SeedCodes)
        /\ Cardinality(users) = 2
        /\ Cardinality(machines) = Len(SeedCodes)
        /\ \A m \in machines :
               Cardinality({ p \in panels : p.parentMachineId = m.id }) = 2

(* -------------------------------- C29 ---------------------------------- *)

\* C29: in the browser's AuthService a cached user comes with a token,
\* isAdmin() is true only while isAuthenticated() is, and the token in
\* memory is the 'auth_token' entry of localStorage (both absent, or equal).
\* The moment between a 401 of the query function and the reload it asks
\* for, in which the entry is gone and the old page still holds its token,
\* is not held against the claim.
C29_SessionStateCoherent ==
    ~client.reloading =>
        /\ client.user # None => client.token # None
        /\ isAdmin => isAuthenticated
        /\ client.token = client.stored

====
